---- MODULE Spec2Model ----
(***************************************************************************)
(* A model of the exetel-api crate: the scalar codecs of customer.rs       *)
(* (Price, the two date formats), the Service record with its flattened    *)
(* bag of unknown fields, the login flow of auth.rs and the typed query    *)
(* engine of client.rs.                                                    *)
(*                                                                         *)
(* Strings the code inspects character by character are sequences of       *)
(* one-character strings; JSON keys, header names and URLs are atomic.     *)
(***************************************************************************)
EXTENDS Integers, Sequences, FiniteSets, TLC

VARIABLES
    price_value,   \* Option<Price>: the Price a caller holds (cents)
    price_text,    \* Option<String>: the wire string of a price
    price_parsed,  \* Option<Result<Price>>: what text.parse::<Price>() returned
    date_value,    \* Option<NaiveDate>
    date_format,   \* "long" (%e %b %Y) or "short" (%e %b %y)
    date_text,     \* Option<String>: the wire string of a date
    date_parsed,   \* Option<Result<NaiveDate>>
    svc_wire,      \* Option<JSON>: one service record as received
    svc_decoded,   \* Option<Result<BroadbandService>>
    svc_encoded,   \* Option<JSON>: the record serialized again
    now,           \* SystemTime::now(), in seconds
    pc,            \* where the one asynchronous call in progress is suspended
    query,         \* Option<Q>: the query the Client call in progress was given
    request,       \* Option<request>: the request the call in progress sent
    response,      \* Option<outcome>: what the transport delivered for it
    sent,          \* every HTTP request handed to the transport, in order
    calls,         \* number of Client::query calls started
    authorization, \* Option<Result<Authorization>>: what authenticate returned
    refresh,       \* Option<bool>: what should_refresh() returned
    client,        \* Option<Result<Client>>: what into_client returned
    query_result   \* Option<Result<R>>: what the last Client call returned

vars == <<price_value, price_text, price_parsed, date_value, date_format,
          date_text, date_parsed, svc_wire, svc_decoded, svc_encoded, now, pc,
          query, request, response, sent, calls, authorization, refresh, client,
          query_result>>

codec_price == <<price_value, price_text, price_parsed>>
codec_date == <<date_value, date_format, date_text, date_parsed>>
codec_svc == <<svc_wire, svc_decoded, svc_encoded>>
http_vars == <<now, pc, query, request, response, sent, calls, authorization, refresh,
               client, query_result>>

(***************************************************************************)
(* Option and Result.                                                      *)
(***************************************************************************)
None == [some |-> FALSE]
Some(x) == [some |-> TRUE, v |-> x]
Ok(x) == [ok |-> TRUE, v |-> x]
Err(e) == [ok |-> FALSE, e |-> e]

(***************************************************************************)
(* Bounds of the model.                                                    *)
(***************************************************************************)
MaxCents == 1250      \* Prices formatted: 0 .. MaxCents cents
MaxLen == 5           \* price strings parsed: every string of up to MaxLen characters
MaxYear == 2024       \* dates formatted: the years of Years, up to MaxYear
MaxClock == 902       \* the clock stops advancing at MaxClock seconds
MaxLatency == 2       \* a login response arrives within MaxLatency seconds
MaxCalls == 2         \* Client::query calls per run

(***************************************************************************)
(* Characters and decimal numbers.                                         *)
(***************************************************************************)
DigitChars == <<"0", "1", "2", "3", "4", "5", "6", "7", "8", "9">>
IsDigit(c) == \E i \in 1..10 : DigitChars[i] = c
DigitVal(c) == (CHOOSE i \in 1..10 : DigitChars[i] = c) - 1

\* What "{}" writes for an unsigned integer.
RECURSIVE Decimal(_)
Decimal(n) ==
    IF n < 10 THEN <<DigitChars[n + 1]>>
    ELSE Append(Decimal(n \div 10), DigitChars[(n % 10) + 1])

\* What "{:02}" writes: zero-padded to at least two characters.
ZeroPad2(n) == IF n < 10 THEN <<"0">> \o Decimal(n) ELSE Decimal(n)

\* str::split(sep): the pieces between separators, empty pieces kept.
RECURSIVE Split(_, _)
Split(s, sep) ==
    IF \E i \in 1..Len(s) : s[i] = sep
    THEN LET i == CHOOSE k \in 1..Len(s) :
                      s[k] = sep /\ \A j \in 1..(k - 1) : s[j] # sep
         IN <<SubSeq(s, 1, i - 1)>> \o Split(SubSeq(s, i + 1, Len(s)), sep)
    ELSE <<s>>

\* The digits of s as a number, most significant first.
RECURSIVE DigitsValue(_)
DigitsValue(s) ==
    IF Len(s) = 0 THEN 0
    ELSE DigitsValue(SubSeq(s, 1, Len(s) - 1)) * 10 + DigitVal(s[Len(s)])

\* str::parse::<u32>(): an optional '+', then one or more decimal digits.
\* A '-' is never accepted for an unsigned type.  Every number the bounded
\* inputs of this model can spell is below 10^(MaxLen+1), far below 2^32, so
\* the PosOverflow error of the real parser is out of reach and not modelled.
ParseU32(s) ==
    LET digits == IF Len(s) >= 1 /\ s[1] = "+" THEN SubSeq(s, 2, Len(s)) ELSE s
    IN IF Len(s) = 0 THEN Err("Empty")
       ELSE IF Len(digits) = 0 THEN Err("InvalidDigit")
       ELSE IF \E i \in 1..Len(digits) : ~IsDigit(digits[i]) THEN Err("InvalidDigit")
       ELSE Ok(DigitsValue(digits))

(***************************************************************************)
(* Price (customer.rs).                                                    *)
(***************************************************************************)
\* PriceLoop with the `?` lost: a group that does not parse counts as zero.
RECURSIVE PriceLoop_SkipBad(_, _, _)
PriceLoop_SkipBad(amounts, i, value) ==
    IF i > Len(amounts) \/ i > 2 THEN Ok(value)
    ELSE LET amount == ParseU32(amounts[i])
         IN PriceLoop_SkipBad(amounts, i + 1,
                              value * 100 + (IF amount.ok THEN amount.v ELSE 0))

\* The loop of Price::from_str over amounts.iter().take(2): the first group
\* that does not parse ends the call with its error (the `?`).
RECURSIVE PriceLoop(_, _, _)
PriceLoop(amounts, i, value) ==
    IF i > Len(amounts) \/ i > 2 THEN Ok(value)
    ELSE LET amount == ParseU32(amounts[i])
         IN IF ~amount.ok THEN Err(amount.e)
            ELSE PriceLoop(amounts, i + 1, value * 100 + amount.v)

\* The first statement of Price::from_str: one leading "$" is dropped.
StripDollar(text) ==
    IF Len(text) >= 1 /\ SubSeq(text, 1, 1) = <<"$">>
    THEN SubSeq(text, 2, Len(text))
    ELSE text

\* Price::from_str.
PriceFromStr(text0) ==
    LET text == StripDollar(text0)
        split == Split(text, ".")
        amounts == IF Len(split) = 1 THEN Append(split, <<"0">>) ELSE split
    IN PriceLoop(amounts, 1, 0)

\* PriceFmt with "{}" where the code has "{:02}".
PriceFmt_NoPad(p) == <<"$">> \o Decimal(p \div 100) \o <<".">> \o Decimal(p % 100)

\* <Price as Display>::fmt.
PriceFmt(p) == <<"$">> \o Decimal(p \div 100) \o <<".">> \o ZeroPad2(p % 100)

PriceAlphabet == {"$", ".", "1", "7", "a", "+", "-"}
PriceTexts == UNION {[1..n -> PriceAlphabet] : n \in 0..MaxLen}

\* The strings the specification names.
Text_1_2_3 == <<"1", ".", "2", ".", "3">>
Text_abc == <<"a", "b", "c">>
NamedPriceTexts ==
    {Text_1_2_3, Text_abc, <<"$", "1", "2", ".", "3", "4">>, <<"1", "2">>}

PriceIdle == price_value = None /\ price_text = None /\ price_parsed = None
DateIdle ==
    /\ date_value = None /\ date_format = "long"
    /\ date_text = None /\ date_parsed = None
ServiceIdle == svc_wire = None /\ svc_decoded = None /\ svc_encoded = None
HttpIdle ==
    /\ now = 0 /\ pc = "idle" /\ query = None /\ request = None /\ response = None
    /\ sent = <<>> /\ calls = 0 /\ authorization = None /\ refresh = None
    /\ client = None /\ query_result = None

\* A caller holds a Price, or a string arrives from the wire.
InitPrice ==
    /\ \/ /\ price_value \in {Some(c) : c \in 0..MaxCents}
          /\ price_text = None
       \/ /\ price_value = None
          /\ price_text \in {Some(s) : s \in PriceTexts \cup NamedPriceTexts}
    /\ price_parsed = None
    /\ DateIdle /\ ServiceIdle /\ HttpIdle

\* Into<String> for Price: format!("{}", self).
PriceDisplay ==
    /\ price_value.some /\ ~price_text.some
    /\ price_text' = Some(PriceFmt(price_value.v))
    /\ UNCHANGED <<price_value, price_parsed, codec_date, codec_svc, http_vars>>

\* TryFrom<String> for Price: text.parse().
PriceParse ==
    /\ price_text.some /\ ~price_parsed.some
    /\ price_parsed' = Some(PriceFromStr(price_text.v))
    /\ UNCHANGED <<price_value, price_text, codec_date, codec_svc, http_vars>>

NextPrice == PriceDisplay \/ PriceParse
SpecPrice == InitPrice /\ [][NextPrice]_vars

(***************************************************************************)
(* C6, C7: Price.                                                          *)
(***************************************************************************)
\* C6: a Price that is formatted ("$" whole "." two-digit cents) and parsed
\* again is the Price that was formatted.
C6_PriceRoundTrip ==
    (price_value.some /\ price_text.some) =>
        LET t == price_text.v
        IN /\ t[1] = "$"
           /\ t[Len(t) - 2] = "."
           /\ \A i \in 2..Len(t) : i # Len(t) - 2 => IsDigit(t[i])
           /\ price_parsed.some => price_parsed.v = Ok(price_value.v)

\* A price with cents below ten and a whole part was formatted and parsed.
C6_Witness ==
    /\ price_value = Some(1205)
    /\ price_text = Some(<<"$", "1", "2", ".", "0", "5">>)
    /\ price_parsed.some

\* A written non-negative integer: digits, with the '+' that parse::<u32> allows.
IsNonNegInt(g) ==
    LET d == IF Len(g) >= 1 /\ g[1] = "+" THEN SubSeq(g, 2, Len(g)) ELSE g
    IN Len(d) >= 1 /\ \A i \in 1..Len(d) : IsDigit(d[i])

\* The '.'-separated groups of a wire string, after the optional '$'.
GroupsOf(text) == Split(StripDollar(text), ".")

\* C7 as stated: parsing fails when any group is not a non-negative integer,
\* and when there are more than two groups.
C7_RejectsBadOrExtraGroups ==
    (~price_value.some /\ price_parsed.some) =>
        LET groups == GroupsOf(price_text.v)
        IN ((\E i \in 1..Len(groups) : ~IsNonNegInt(groups[i])) \/ Len(groups) > 2)
               => ~price_parsed.v.ok

\* C7 amended: parsing returns no Price when one of the first two groups is not
\* a non-negative integer; groups after the second are ignored, so the result is
\* that of the first two groups alone ("1.2.3" is 102 cents, "abc" is rejected).
C7_RejectsBadLeadingGroups ==
    (~price_value.some /\ price_parsed.some) =>
        LET groups == GroupsOf(price_text.v)
            n == IF Len(groups) < 2 THEN Len(groups) ELSE 2
        IN /\ (\E i \in 1..n : ~IsNonNegInt(groups[i])) => ~price_parsed.v.ok
           /\ (\A i \in 1..n : IsNonNegInt(groups[i])) => price_parsed.v.ok
           /\ Len(groups) > 2 =>
                  price_parsed.v = PriceLoop(<<groups[1], groups[2]>>, 1, 0)
           /\ price_text.v = Text_1_2_3 => price_parsed.v = Ok(102)
           /\ price_text.v = Text_abc => ~price_parsed.v.ok

\* A string whose second group is not a number was parsed and rejected.
C7_Witness ==
    /\ ~price_value.some
    /\ price_text = Some(<<"$", "1", ".", "a">>)
    /\ price_parsed.some /\ ~price_parsed.v.ok

(***************************************************************************)
(* Dates (customer.rs): NaiveDate::format and NaiveDate::parse_from_str    *)
(* with the patterns "%e %b %Y" and "%e %b %y".                            *)
(***************************************************************************)
MonthAbbr == << <<"J", "a", "n">>, <<"F", "e", "b">>, <<"M", "a", "r">>,
                <<"A", "p", "r">>, <<"M", "a", "y">>, <<"J", "u", "n">>,
                <<"J", "u", "l">>, <<"A", "u", "g">>, <<"S", "e", "p">>,
                <<"O", "c", "t">>, <<"N", "o", "v">>, <<"D", "e", "c">> >>

IsLeap(y) == (y % 4 = 0 /\ y % 100 # 0) \/ y % 400 = 0
DaysIn(y, m) ==
    IF m = 2 THEN (IF IsLeap(y) THEN 29 ELSE 28)
    ELSE IF m \in {4, 6, 9, 11} THEN 30 ELSE 31

Date(y, m, d) == [y |-> y, m |-> m, d |-> d]
Years == {1969, 2000, 2068} \cup (2023..MaxYear)
ValidDates ==
    UNION {{Date(y, m, d) : d \in 1..DaysIn(y, m)} : <<y, m>> \in Years \X (1..12)}

\* %e: the day of the month, space-padded to two characters.
SpacePad2(n) == IF n < 10 THEN <<" ">> \o Decimal(n) ELSE Decimal(n)

\* %Y for the years 0..9999: zero-padded to four digits.
ZeroPad4(n) ==
    IF n < 10 THEN <<"0", "0", "0">> \o Decimal(n)
    ELSE IF n < 100 THEN <<"0", "0">> \o Decimal(n)
    ELSE IF n < 1000 THEN <<"0">> \o Decimal(n)
    ELSE Decimal(n)

\* date.format("%e %b %Y").
FormatLong(date) ==
    SpacePad2(date.d) \o <<" ">> \o MonthAbbr[date.m] \o <<" ">> \o ZeroPad4(date.y)

\* date.format("%e %b %y").
FormatShort(date) ==
    SpacePad2(date.d) \o <<" ">> \o MonthAbbr[date.m] \o <<" ">>
        \o ZeroPad2(date.y % 100)

\* str::trim_left, which the parser applies before every numeric item and for
\* every run of whitespace in the pattern.
RECURSIVE TrimLeft(_)
TrimLeft(s) == IF Len(s) >= 1 /\ s[1] = " " THEN TrimLeft(Tail(s)) ELSE s

\* The number of leading digits among the first `max` characters of s.
RECURSIVE DigitRun(_, _)
DigitRun(s, max) ==
    IF max = 0 \/ Len(s) = 0 \/ ~IsDigit(s[1]) THEN 0
    ELSE 1 + DigitRun(Tail(s), max - 1)

\* scan::number(s, min, max): between min and max digits, as many as there are.
ScanNumber(s, min, max) ==
    LET n == DigitRun(s, max)
    IN IF n < min THEN Err(IF Len(s) = 0 THEN "TooShort" ELSE "Invalid")
       ELSE Ok([value |-> DigitsValue(SubSeq(s, 1, n)),
                rest |-> SubSeq(s, n + 1, Len(s))])

UpperChars == <<"A", "B", "C", "D", "E", "F", "G", "H", "I", "J", "K", "L", "M",
                "N", "O", "P", "Q", "R", "S", "T", "U", "V", "W", "X", "Y", "Z">>
LowerChars == <<"a", "b", "c", "d", "e", "f", "g", "h", "i", "j", "k", "l", "m",
                "n", "o", "p", "q", "r", "s", "t", "u", "v", "w", "x", "y", "z">>
ToLower(c) ==
    IF \E i \in 1..26 : UpperChars[i] = c
    THEN LowerChars[CHOOSE i \in 1..26 : UpperChars[i] = c]
    ELSE c
LowerStr(s) == [i \in 1..Len(s) |-> ToLower(s[i])]

\* scan::short_month0: three letters naming a month, in either case.
ShortMonth0(s) ==
    IF Len(s) < 3 THEN Err("TooShort")
    ELSE LET head == LowerStr(SubSeq(s, 1, 3))
         IN IF \E m \in 1..12 : LowerStr(MonthAbbr[m]) = head
            THEN Ok([value |-> CHOOSE m \in 1..12 : LowerStr(MonthAbbr[m]) = head,
                     rest |-> SubSeq(s, 4, Len(s))])
            ELSE Err("Invalid")

\* The year item.  %Y reads up to four digits, or any number after a sign;
\* %y reads up to two digits and places them in 1970..2069.
ScanYear(s, short) ==
    IF short
    THEN LET r == ScanNumber(s, 1, 2)
         IN IF ~r.ok THEN r
            ELSE Ok([value |-> r.v.value + (IF r.v.value < 70 THEN 2000 ELSE 1900),
                     rest |-> r.v.rest])
    ELSE IF Len(s) >= 1 /\ s[1] \in {"+", "-"}
    THEN LET r == ScanNumber(Tail(s), 1, Len(s))
         IN IF ~r.ok THEN r
            ELSE Ok([value |-> IF s[1] = "-" THEN 0 - r.v.value ELSE r.v.value,
                     rest |-> r.v.rest])
    ELSE ScanNumber(s, 1, 4)

\* NaiveDate::parse_from_str(text, "%e %b %Y") and (text, "%e %b %y").
ParseDateStr(text, short) ==
    LET day == ScanNumber(TrimLeft(text), 1, 2)
    IN IF ~day.ok THEN Err(day.e)
       ELSE LET mon == ShortMonth0(TrimLeft(day.v.rest))
       IN IF ~mon.ok THEN Err(mon.e)
       ELSE LET yr == ScanYear(TrimLeft(mon.v.rest), short)
       IN IF ~yr.ok THEN Err(yr.e)
       ELSE IF Len(yr.v.rest) > 0 THEN Err("TooLong")
       ELSE IF day.v.value < 1 \/ day.v.value > DaysIn(yr.v.value, mon.v.value)
       THEN Err("OutOfRange")
       ELSE Ok(Date(yr.v.value, mon.v.value, day.v.value))

Text_5_Jan_2024 == <<"5", " ", "J", "a", "n", " ", "2", "0", "2", "4">>
Text_5_Jan_24 == <<"5", " ", "J", "a", "n", " ", "2", "4">>
WireDateTexts ==
    {Text_5_Jan_2024, Text_5_Jan_24,
     <<"0", "5", " ", "J", "a", "n", " ", "2", "0", "2", "4">>,
     <<"5", " ", "j", "a", "n", " ", "6", "9">>,
     <<"3", "1", " ", "F", "e", "b", " ", "2", "0", "2", "4">>,
     <<"2", "9", " ", "F", "e", "b", " ", "2", "4">>,
     <<"5", " ", "J", "a", "n", " ", "2", "0", "2", "4", "x">>,
     <<"2", "0", "2", "4", "-", "0", "1", "-", "0", "5">>,
     <<"5", " ", "J", "a", "n">>,
     <<>>}

\* A decoded record holds a date to serialize, or a string arrives from the wire.
InitDate ==
    /\ date_format \in {"long", "short"}
    /\ \/ /\ date_value \in {Some(d) : d \in ValidDates}
          /\ date_text = None
       \/ /\ date_value = None
          /\ date_text \in {Some(s) : s \in WireDateTexts}
    /\ date_parsed = None
    /\ PriceIdle /\ ServiceIdle /\ HttpIdle

\* unparse_date.
UnparseDate ==
    /\ date_format = "long" /\ date_value.some /\ ~date_text.some
    /\ date_text' = Some(FormatLong(date_value.v))
    /\ UNCHANGED <<date_value, date_format, date_parsed, codec_price, codec_svc,
                   http_vars>>

\* unparse_short_date.
UnparseShortDate ==
    /\ date_format = "short" /\ date_value.some /\ ~date_text.some
    /\ date_text' = Some(FormatShort(date_value.v))
    /\ UNCHANGED <<date_value, date_format, date_parsed, codec_price, codec_svc,
                   http_vars>>

\* parse_date.
ParseDate ==
    /\ date_format = "long" /\ date_text.some /\ ~date_parsed.some
    /\ date_parsed' = Some(ParseDateStr(date_text.v, FALSE))
    /\ UNCHANGED <<date_value, date_format, date_text, codec_price, codec_svc,
                   http_vars>>

\* parse_short_date.
ParseShortDate ==
    /\ date_format = "short" /\ date_text.some /\ ~date_parsed.some
    /\ date_parsed' = Some(ParseDateStr(date_text.v, TRUE))
    /\ UNCHANGED <<date_value, date_format, date_text, codec_price, codec_svc,
                   http_vars>>

NextDate == UnparseDate \/ UnparseShortDate \/ ParseDate \/ ParseShortDate
SpecDate == InitDate /\ [][NextDate]_vars

(***************************************************************************)
(* C9: the date formats.                                                   *)
(***************************************************************************)
\* C9 as stated: the day is written with one or two digits and no padding, so
\* 2024-01-05 is "5 Jan 2024" (long) and "5 Jan 24" (short), and the long string
\* parses back to the date.
C9_DayUnpadded ==
    (date_value.some /\ date_text.some) =>
        /\ IsDigit(date_text.v[1])
        /\ date_value.v = Date(2024, 1, 5) =>
               date_text.v = IF date_format = "long" THEN Text_5_Jan_2024
                             ELSE Text_5_Jan_24
        /\ (date_format = "long" /\ date_parsed.some) =>
               date_parsed.v = Ok(date_value.v)

\* What the code writes instead: %e pads the day with a space to two characters,
\* so 2024-01-05 is " 5 Jan 2024" (long) and " 5 Jan 24" (short); parsing skips
\* the padding and the long string still parses back to the date.
DaySpacePadded ==
    (date_value.some /\ date_text.some) =>
        /\ date_text.v[1] = (IF date_value.v.d < 10 THEN " "
                             ELSE DigitChars[(date_value.v.d \div 10) + 1])
        /\ date_text.v[2] = DigitChars[(date_value.v.d % 10) + 1]
        /\ date_text.v[3] = " "
        /\ date_value.v = Date(2024, 1, 5) =>
               date_text.v = <<" ">> \o (IF date_format = "long" THEN Text_5_Jan_2024
                                         ELSE Text_5_Jan_24)
        /\ (date_format = "long" /\ date_parsed.some) =>
               date_parsed.v = Ok(date_value.v)

(***************************************************************************)
(* JSON values, as serde_json reads and writes them.  An object is a       *)
(* function from its keys to its values.                                   *)
(***************************************************************************)
JNull == [t |-> "null"]
JBool(b) == [t |-> "bool", b |-> b]
JNum(n) == [t |-> "num", n |-> n]
JStr(s) == [t |-> "str", s |-> s]
JArr(a) == [t |-> "arr", a |-> a]
JObj(o) == [t |-> "obj", o |-> o]

IsU(j) == j.t = "num" /\ j.n >= 0       \* deserializes as u32 / u64
IsStr(j) == j.t = "str"
IsBool(j) == j.t = "bool"

(***************************************************************************)
(* Service and BroadbandService (customer.rs).                             *)
(***************************************************************************)
\* The fields of Service under #[serde(rename_all = "camelCase")].
ServiceKeys ==
    {"id", "description", "monthlyCharge", "contractStartDate", "contractEndDate",
     "currentContract", "billingCycleProgressPercentage", "inContract",
     "paymentVia", "paymentExpiry", "planChange", "serviceNumber", "serviceType",
     "nextBillingCycleStart"}
\* payment_expiry is an Option: a missing key is None.
RequiredServiceKeys == ServiceKeys \ {"paymentExpiry"}

\* How each named field is read from its JSON value.
DecodeServiceField(k, j) ==
    CASE k \in {"id", "currentContract", "billingCycleProgressPercentage"} ->
            IF IsU(j) THEN Ok(j.n) ELSE Err("invalid type")
      [] k \in {"description", "paymentVia", "serviceNumber", "serviceType"} ->
            IF IsStr(j) THEN Ok(j.s) ELSE Err("invalid type")
      [] k \in {"inContract", "planChange"} ->
            IF IsBool(j) THEN Ok(j.b) ELSE Err("invalid type")
      [] k = "monthlyCharge" ->
            IF IsStr(j) THEN PriceFromStr(j.s) ELSE Err("invalid type")
      [] k \in {"contractStartDate", "contractEndDate"} ->
            IF IsStr(j) THEN ParseDateStr(j.s, FALSE) ELSE Err("invalid type")
      [] k = "nextBillingCycleStart" ->
            IF IsStr(j) THEN ParseDateStr(j.s, TRUE) ELSE Err("invalid type")
      [] k = "paymentExpiry" ->
            IF j = JNull THEN Ok(None)
            ELSE IF IsStr(j) THEN Ok(Some(j.s)) ELSE Err("invalid type")

\* #[serde(flatten)] rest: every entry whose key names no field.
RestOf(o) == [k \in (DOMAIN o) \ ServiceKeys |-> o[k]]

\* The Service built from its decoded fields f and the object o they came from.
ServiceOf(o, f) ==
    [id |-> f["id"].v,
     description |-> f["description"].v,
     monthly_charge |-> f["monthlyCharge"].v,
     contract_start_date |-> f["contractStartDate"].v,
     contract_end_date |-> f["contractEndDate"].v,
     current_contract |-> f["currentContract"].v,
     billing_cycle_progress_percentage |-> f["billingCycleProgressPercentage"].v,
     in_contract |-> f["inContract"].v,
     payment_via |-> f["paymentVia"].v,
     payment_expiry |->
         IF "paymentExpiry" \in DOMAIN f THEN f["paymentExpiry"].v ELSE None,
     plan_change |-> f["planChange"].v,
     service_number |-> f["serviceNumber"].v,
     service_type |-> f["serviceType"].v,
     next_billing_cycle_start |-> f["nextBillingCycleStart"].v,
     rest |-> RestOf(o)]

\* The outcome of reading the named fields f of the object o: a missing
\* required field and a field that does not decode are errors.
ServiceResult(o, f) ==
    IF \E k \in RequiredServiceKeys : k \notin DOMAIN o THEN Err("missing field")
    ELSE IF \E k \in DOMAIN f : ~f[k].ok THEN Err("invalid value")
    ELSE Ok(ServiceOf(o, f))

\* <BroadbandService as Deserialize>: the one flattened Service.
DecodeService(j) ==
    IF j.t # "obj" THEN Err("invalid type")
    ELSE ServiceResult(j.o, [k \in ServiceKeys \cap DOMAIN j.o |->
                                DecodeServiceField(k, j.o[k])])

\* How each named field of a Service is written.
EncodeServiceField(svc, k) ==
    CASE k = "id" -> JNum(svc.id)
      [] k = "description" -> JStr(svc.description)
      [] k = "monthlyCharge" -> JStr(PriceFmt(svc.monthly_charge))
      [] k = "contractStartDate" -> JStr(FormatLong(svc.contract_start_date))
      [] k = "contractEndDate" -> JStr(FormatLong(svc.contract_end_date))
      [] k = "currentContract" -> JNum(svc.current_contract)
      [] k = "billingCycleProgressPercentage" ->
            JNum(svc.billing_cycle_progress_percentage)
      [] k = "inContract" -> JBool(svc.in_contract)
      [] k = "paymentVia" -> JStr(svc.payment_via)
      [] k = "paymentExpiry" ->
            IF svc.payment_expiry.some THEN JStr(svc.payment_expiry.v) ELSE JNull
      [] k = "planChange" -> JBool(svc.plan_change)
      [] k = "serviceNumber" -> JStr(svc.service_number)
      [] k = "serviceType" -> JStr(svc.service_type)
      [] k = "nextBillingCycleStart" -> JStr(FormatShort(svc.next_billing_cycle_start))

\* EncodeService without the flattened rest.
EncodeService_NoRest(svc) ==
    JObj([k \in ServiceKeys |-> EncodeServiceField(svc, k)])

\* <BroadbandService as Serialize>: the named fields, then the entries of rest.
EncodeService(svc) ==
    JObj([k \in ServiceKeys \cup DOMAIN svc.rest |->
             IF k \in ServiceKeys THEN EncodeServiceField(svc, k) ELSE svc.rest[k]])

\* Service records as they arrive.
S_nbn == <<"n", "b", "n">>
WireKnown(charge, start, expiry, dropped) ==
    [k \in (ServiceKeys \ dropped) \ (IF expiry.some THEN {} ELSE {"paymentExpiry"}) |->
        CASE k = "id" -> JNum(7)
          [] k = "description" -> JStr(S_nbn)
          [] k = "monthlyCharge" -> charge
          [] k = "contractStartDate" -> start
          [] k = "contractEndDate" ->
                JStr(<<"4", " ", "J", "a", "n", " ", "2", "0", "2", "5">>)
          [] k = "currentContract" -> JNum(12)
          [] k = "billingCycleProgressPercentage" -> JNum(42)
          [] k = "inContract" -> JBool(TRUE)
          [] k = "paymentVia" -> JStr(<<"c", "c">>)
          [] k = "paymentExpiry" -> expiry.v
          [] k = "planChange" -> JBool(FALSE)
          [] k = "serviceNumber" -> JStr(<<"0", "4">>)
          [] k = "serviceType" -> JStr(S_nbn)
          [] k = "nextBillingCycleStart" ->
                JStr(<<"5", " ", "F", "e", "b", " ", "2", "4">>)]

WireCharges ==
    {JStr(<<"$", "5", "9", ".", "9", "9">>), JStr(<<"5", "9">>), JStr(Text_abc),
     JNum(59)}
WireStarts == {JStr(Text_5_Jan_2024), JStr(<<"2", "0", "2", "4">>)}
WireExpiries == {None, Some(JNull), Some(JStr(<<"1", "2", "/", "2", "6">>))}
WireDropped == {{}, {"id"}}
\* Keys that name no field of Service, "monthly_charge" among them.
ExtraKeys == {"speed", "monthly_charge", "nbnDetails"}
ExtraValues ==
    {JNum(100), JNull, JStr(<<"$", "1">>), JObj([k \in {"id"} |-> JBool(TRUE)])}
WireExtras == UNION {[D -> ExtraValues] : D \in SUBSET ExtraKeys}

ServiceWires ==
    {JObj(WireKnown(c, s, e, d) @@ x) :
        c \in WireCharges, s \in WireStarts, e \in WireExpiries, d \in WireDropped,
        x \in WireExtras}

InitService ==
    /\ svc_wire \in {Some(w) : w \in ServiceWires}
    /\ svc_decoded = None /\ svc_encoded = None
    /\ PriceIdle /\ DateIdle /\ HttpIdle

\* serde_json::from_value::<BroadbandService>.
DecodeRecord ==
    /\ svc_wire.some /\ ~svc_decoded.some
    /\ svc_decoded' = Some(DecodeService(svc_wire.v))
    /\ UNCHANGED <<svc_wire, svc_encoded, codec_price, codec_date, http_vars>>

\* serde_json::to_value(&service).
EncodeRecord ==
    /\ svc_decoded.some /\ svc_decoded.v.ok /\ ~svc_encoded.some
    /\ svc_encoded' = Some(EncodeService(svc_decoded.v.v))
    /\ UNCHANGED <<svc_wire, svc_decoded, codec_price, codec_date, http_vars>>

NextService == DecodeRecord \/ EncodeRecord
SpecService == InitService /\ [][NextService]_vars

(***************************************************************************)
(* C8: unknown fields of a service record.                                 *)
(***************************************************************************)
\* C8: a record that decodes is re-encoded with exactly its unknown keys, each
\* with the value it arrived with.
C8_UnknownFieldsSurvive ==
    (svc_decoded.some /\ svc_decoded.v.ok /\ svc_encoded.some) =>
        LET in == svc_wire.v.o
            out == svc_encoded.v.o
        IN /\ (DOMAIN out) \ ServiceKeys = (DOMAIN in) \ ServiceKeys
           /\ \A k \in (DOMAIN in) \ ServiceKeys : out[k] = in[k]

\* A record with two unknown keys was decoded and encoded again.
C8_Witness ==
    /\ svc_decoded.some /\ svc_decoded.v.ok /\ svc_encoded.some
    /\ {"speed", "monthly_charge"} \subseteq DOMAIN svc_wire.v.o
    /\ svc_wire.v.o["speed"] = JNum(100)

(***************************************************************************)
(* HTTP bodies.  A body is text: the serialization of a JSON value, or     *)
(* text that serde_json::from_str rejects.                                 *)
(***************************************************************************)
to_string(j) == [wf |-> TRUE, json |-> j]          \* serde_json::to_string
Garbage == [wf |-> FALSE]
from_str(text) == IF text.wf THEN Ok(text.json) ELSE Err("syntax")

\* What the transport hands back: an error from send() or text(), or a
\* response with its status and body.
Delivered(status, body) == Ok([status |-> status, body |-> body])
TransportError == Err("transport")
Statuses == {200, 401, 500}

(***************************************************************************)
(* Authorization (auth.rs).                                                *)
(***************************************************************************)
LOGIN_URL == "https://my.exetel.com.au/api/auth/postLogin"
ORIGIN_URL == "https://my.exetel.com.au"
REFERER_URL == "https://my.exetel.com.au/login"
APPLICATION_JSON == "application/json"
TEXT_PLAIN == "text/plain"
REFRESH_WINDOW == 5 * 60

\* Query::new: the remaining fields are Default::default().
QueryNew(username, password) ==
    [access_token |-> None, password |-> password, persist_login |-> FALSE,
     username |-> username]

\* <Query as Serialize>.  access_token carries
\* skip_serializing_if = "Option::is_some": it is left out when it is Some,
\* and written (as null) when it is None.
SerializeQuery(q) ==
    LET skip == q.access_token.some
    IN JObj([k \in {"password", "persistLogin", "username"}
                     \cup (IF skip THEN {} ELSE {"accessToken"}) |->
               CASE k = "accessToken" ->
                       IF q.access_token.some THEN JStr(q.access_token.v) ELSE JNull
                 [] k = "password" -> JStr(q.password)
                 [] k = "persistLogin" -> JBool(q.persist_login)
                 [] k = "username" -> JStr(q.username)])

\* The keys <Response as Deserialize> looks for: the field names as written,
\* but for persist_login, which is renamed.
ResponseKeys ==
    {"token_type", "expires_in", "access_token", "refresh_token", "persistLogin"}

S_Bearer == <<"B", "e", "a", "r", "e", "r">>

\* <Response as Deserialize>; keys that name no field are ignored.
DecodeResponse(j) ==
    IF j.t # "obj" THEN Err("invalid type")
    ELSE LET o == j.o
         IN IF \E k \in ResponseKeys : k \notin DOMAIN o THEN Err("missing field")
            ELSE IF ~IsStr(o["token_type"]) THEN Err("invalid type")
            ELSE IF o["token_type"].s # S_Bearer THEN Err("unknown variant")
            ELSE IF ~(/\ IsU(o["expires_in"]) /\ IsStr(o["access_token"])
                      /\ IsStr(o["refresh_token"]) /\ IsBool(o["persistLogin"]))
            THEN Err("invalid type")
            ELSE Ok([token_type |-> "Bearer",
                     expires_in |-> o["expires_in"].n,
                     access_token |-> o["access_token"].s,
                     refresh_token |-> o["refresh_token"].s,
                     persist_login |-> o["persistLogin"].b])

\* The request authenticate_with builds.
LoginRequest(username, password) ==
    [method |-> "POST",
     url |-> LOGIN_URL,
     headers |-> [h \in {"origin", "referer", "accept", "content-type"} |->
                    CASE h = "origin" -> ORIGIN_URL
                      [] h = "referer" -> REFERER_URL
                      [] h = "accept" -> APPLICATION_JSON
                      [] h = "content-type" -> APPLICATION_JSON],
     body |-> Some(to_string(SerializeQuery(QueryNew(username, password))))]

\* The rest of authenticate_with, from what the transport delivered at time t.
\* The status of the response is not looked at.
LoginResult(outcome, t) ==
    IF ~outcome.ok THEN Err(outcome.e)
    ELSE LET parsed == from_str(outcome.v.body)
         IN IF ~parsed.ok THEN Err(parsed.e)
            ELSE LET decoded == DecodeResponse(parsed.v)
                 IN IF ~decoded.ok THEN Err(decoded.e)
                    ELSE Ok([last_refreshed |-> t, last_response |-> decoded.v])

access_token(auth) == auth.last_response.access_token
expires_at(auth) == auth.last_refreshed + auth.last_response.expires_in
should_refresh(auth, t) == expires_at(auth) + REFRESH_WINDOW > t

\* Login responses.
S_abc == <<"a", "b", "c">>
S_xyz == <<"x", "y", "z">>
\* The response body the specification gives, with its camelCase keys.
CamelLoginBody ==
    JObj([k \in {"tokenType", "expiresIn", "accessToken", "refreshToken",
                 "persistLogin"} |->
            CASE k = "tokenType" -> JStr(S_Bearer)
              [] k = "expiresIn" -> JNum(3600)
              [] k = "accessToken" -> JStr(S_abc)
              [] k = "refreshToken" -> JStr(S_xyz)
              [] k = "persistLogin" -> JBool(FALSE)])
\* The same body under the keys DecodeResponse looks for.
SnakeLoginBody(kind, expires, dropped) ==
    JObj([k \in ResponseKeys \ dropped |->
            CASE k = "token_type" -> JStr(kind)
              [] k = "expires_in" -> JNum(expires)
              [] k = "access_token" -> JStr(S_abc)
              [] k = "refresh_token" -> JStr(S_xyz)
              [] k = "persistLogin" -> JBool(FALSE)])
LoginBodies ==
    {Garbage, to_string(JNull), to_string(CamelLoginBody)}
        \cup {to_string(SnakeLoginBody(S_Bearer, e, {})) : e \in {600, 3600}}
        \cup {to_string(SnakeLoginBody(S_Bearer, 3600, {"refresh_token"})),
              to_string(SnakeLoginBody(<<"M", "A", "C">>, 3600, {}))}
LoginOutcomes ==
    {TransportError} \cup {Delivered(st, b) : st \in Statuses, b \in LoginBodies}

Usernames == {<<"u">>, <<"v", "@", "x">>}
Passwords == {<<"p">>}
ClockSteps == {1, 300}

InitAuth == PriceIdle /\ DateIdle /\ ServiceIdle /\ HttpIdle

\* authenticate, up to the first await: the request is built and sent.
AuthSend ==
    /\ pc = "idle" /\ ~authorization.some
    /\ \E username \in Usernames, password \in Passwords :
           /\ request' = Some(LoginRequest(username, password))
           /\ sent' = Append(sent, LoginRequest(username, password))
    /\ pc' = "login"
    /\ UNCHANGED <<now, query, response, calls, authorization, refresh, client,
                   query_result, codec_price, codec_date, codec_svc>>

\* authenticate, resumed: the transport delivers, the time is read, the body
\* is decoded.
AuthReceive ==
    /\ pc = "login"
    /\ \E outcome \in LoginOutcomes :
           /\ response' = Some(outcome)
           /\ authorization' = Some(LoginResult(outcome, now))
    /\ pc' = "done"
    /\ UNCHANGED <<now, query, request, sent, calls, refresh, client, query_result,
                   codec_price, codec_date, codec_svc>>

\* should_refresh.  The model follows one call; its answer ends the run.
ShouldRefresh ==
    /\ pc = "done" /\ authorization.v.ok /\ ~refresh.some
    /\ refresh' = Some(should_refresh(authorization.v.v, now))
    /\ UNCHANGED <<now, pc, query, request, response, sent, calls, authorization,
                   client, query_result, codec_price, codec_date, codec_svc>>

\* Time passes: while the login is in flight (at most MaxLatency seconds) and
\* after it, until should_refresh has answered.
Tick ==
    /\ ~refresh.some
    /\ pc = "done" \/ now < MaxLatency
    /\ \E d \in ClockSteps : now + d <= MaxClock /\ now' = now + d
    /\ UNCHANGED <<pc, query, request, response, sent, calls, authorization, refresh,
                   client, query_result, codec_price, codec_date, codec_svc>>

NextAuth == AuthSend \/ AuthReceive \/ ShouldRefresh \/ Tick
SpecAuth == InitAuth /\ [][NextAuth]_vars

(***************************************************************************)
(* C1, C2, C4, C5: the login flow.                                         *)
(***************************************************************************)
\* C1: should_refresh() is false when asked at the time of construction, and
\* at any time it is true only if now > issuedAt + expiresIn + 300 s.
C1_RefreshOnlyWhenStale ==
    refresh.some =>
        LET auth == authorization.v.v
        IN /\ now = auth.last_refreshed => refresh.v = FALSE
           /\ refresh.v = TRUE =>
                  now > auth.last_refreshed + auth.last_response.expires_in + 300

\* C2: the login response of the specification (camelCase keys) yields an
\* Authorization whose access token displays as "abc".
C2_CamelCaseLoginAccepted ==
    (pc = "done" /\ response = Some(Delivered(200, to_string(CamelLoginBody)))) =>
        /\ authorization.v.ok
        /\ access_token(authorization.v.v) = S_abc

\* C4: authenticate returns an error when the status is not 2xx, when the body
\* is not JSON, and when the JSON lacks a required field.
C4_LoginFailuresAreErrors ==
    (pc = "done" /\ response.v.ok) =>
        LET r == response.v.v
        IN (\/ r.status \notin 200..299
            \/ ~r.body.wf
            \/ r.body.json.t # "obj"
            \/ \E k \in ResponseKeys : k \notin DOMAIN r.body.json.o)
               => ~authorization.v.ok

\* C5: the login body has exactly the keys username, password and persistLogin
\* (false); accessToken is not written, not even as null.
C5_LoginBodyOmitsAccessToken ==
    (pc = "login") =>
        LET body == request.v.body.v.json
        IN /\ DOMAIN body.o = {"username", "password", "persistLogin"}
           /\ body.o["persistLogin"] = JBool(FALSE)

(***************************************************************************)
(* Client and Query (client.rs), Services and GetServices (customer.rs).   *)
(***************************************************************************)
URL_PREFIX == "https://webservices.api.exetel.com.au/v1"

\* HeaderValue::from_str: no control characters.
IsHeaderValue(s) == \A i \in 1..Len(s) : s[i] \notin {"\n", "\r"}

\* TryFrom<Authorization> for Client.
TryFromAuthorization(auth) ==
    LET bearer == S_Bearer \o <<" ">> \o access_token(auth)
    IN IF ~IsHeaderValue(bearer) THEN Err("invalid header value")
       ELSE Ok([authorization |-> auth,
                inner |-> [default_headers |-> [h \in {"authorization"} |-> bearer]]])

\* The queries.  GetServices is the one the crate defines; EchoQuery stands
\* for an implementation of Query that overrides body().
GetServices == [path |-> "/service", body |-> None, response |-> "Data<Services>"]
EchoQuery ==
    [path |-> "/echo",
     body |-> Some(JObj([k \in {"id"} |-> JNum(7)])),
     response |-> "Value"]
Queries == {GetServices, EchoQuery}

\* Query::url.
QueryUrl(q) == URL_PREFIX \o q.path

\* Client::get followed by Client::request: the request as it is sent.
GetRequest(c, url) ==
    [method |-> "GET",
     url |-> url,
     headers |-> [h \in {"content-type", "accept"} |->
                    IF h = "accept" THEN APPLICATION_JSON ELSE TEXT_PLAIN]
                 @@ c.inner.default_headers,
     body |-> None]

\* Client::post followed by Client::request.
PostRequest(c, url, body) ==
    [method |-> "POST",
     url |-> url,
     headers |-> [h \in {"content-type", "accept"} |-> APPLICATION_JSON]
                 @@ c.inner.default_headers,
     body |-> Some(to_string(body))]

\* Client::query sending every query with GET.
QueryRequest_AlwaysGet(c, q) == GetRequest(c, QueryUrl(q))

\* Client::query, up to the await: the request the query becomes.
QueryRequest(c, q) ==
    IF q.body.some THEN PostRequest(c, QueryUrl(q), q.body.v)
    ELSE GetRequest(c, QueryUrl(q))

\* Data<T> read where the value itself is the T: no envelope is taken off.
DataOf_NoEnvelope(j) == Ok(j)

\* <Data<T> as Deserialize>, and Data::proxy with it: the value under "data"
\* of {"data": T}, for T to be read from.
DataOf(j) ==
    IF j.t # "obj" THEN Err("invalid type")
    ELSE IF "data" \notin DOMAIN j.o THEN Err("missing field")
    ELSE Ok(j.o["data"])

\* The list of decoded elements, or the error of one that did not decode.
ListResult(items) ==
    IF \E i \in 1..Len(items) : ~items[i].ok THEN Err("invalid value")
    ELSE Ok([i \in 1..Len(items) |-> items[i].v])

\* Vec<BroadbandService>, Vec<MobileService>, Vec<PhoneService> and
\* Vec<VoipService>: each element is one flattened Service.
DecodeServiceList(j) ==
    IF j.t # "arr" THEN Err("invalid type")
    ELSE ListResult([i \in 1..Len(j.a) |-> DecodeService(j.a[i])])

\* One field of Services: #[serde(deserialize_with = "Data::proxy")].
DecodeProxy(j) ==
    IF DataOf(j).ok THEN DecodeServiceList(DataOf(j).v) ELSE DataOf(j)

ServicesKeys == {"broadband", "mobile", "phone", "voip"}

\* The Services built from its four decoded lists.
ServicesResult(lists) ==
    IF \E k \in ServicesKeys : ~lists[k].ok THEN Err("invalid value")
    ELSE Ok([broadband |-> lists["broadband"].v,
             mobile |-> lists["mobile"].v,
             phone |-> lists["phone"].v,
             voip |-> lists["voip"].v])

\* <Services as Deserialize>: each list sits in its own envelope.
DecodeServices(j) ==
    IF j.t # "obj" THEN Err("invalid type")
    ELSE IF \E k \in ServicesKeys : k \notin DOMAIN j.o THEN Err("missing field")
    ELSE ServicesResult([k \in ServicesKeys |-> DecodeProxy(j.o[k])])

\* Data<Services> from the value under its "data".
DataServices(inner) == IF inner.ok THEN Ok([data |-> inner.v]) ELSE inner

\* Q::Response read from a JSON value.
DecodeQueryResponse(q, j) ==
    IF q.response = "Data<Services>"
    THEN IF DataOf(j).ok THEN DataServices(DecodeServices(DataOf(j).v)) ELSE DataOf(j)
    ELSE Ok(j)

\* Client::request after the await: the body is read and decoded.  The status
\* of the response is not looked at.
QueryResult(q, outcome) ==
    IF ~outcome.ok THEN Err(outcome.e)
    ELSE IF ~from_str(outcome.v.body).ok THEN Err(from_str(outcome.v.body).e)
    ELSE DecodeQueryResponse(q, from_str(outcome.v.body).v)

\* Data::unwrap, as Client::services maps it over the result.
UnwrapData(q, result) ==
    IF q.response = "Data<Services>" /\ result.ok THEN Ok(result.v.data) ELSE result

\* Bodies of the /service endpoint.
GoodRecord(extra) ==
    JObj(WireKnown(JStr(<<"$", "5", "9", ".", "9", "9">>), JStr(Text_5_Jan_2024),
                   None, {}) @@ extra)
BadRecord ==
    JObj(WireKnown(JStr(<<"$", "5", "9", ".", "9", "9">>), JStr(Text_5_Jan_2024),
                   None, {"id"}))
Envelope(j) == JObj([k \in {"data"} |-> j])
\* {"broadband":{"data":bb},"mobile":{"data":[]},"phone":{"data":[]},"voip":{"data":[]}}
ServicesBody(bb) ==
    JObj([k \in ServicesKeys |-> Envelope(JArr(IF k = "broadband" THEN bb ELSE <<>>))])
WireRecords ==
    {GoodRecord(x) : x \in {[k \in {} |-> JNull], [k \in {"speed"} |-> JNum(100)]}}
        \cup {BadRecord}
BroadbandLists == {<<>>} \cup {<<r>> : r \in WireRecords}
                     \cup {<<r, r>> : r \in WireRecords}
QueryBodies ==
    {Garbage, to_string(JNull)}
        \cup {to_string(ServicesBody(bb)) : bb \in BroadbandLists}
        \cup {to_string(Envelope(ServicesBody(bb))) : bb \in BroadbandLists}
QueryOutcomes ==
    {TransportError} \cup {Delivered(st, b) : st \in {200, 500}, b \in QueryBodies}

\* An Authorization as a successful login leaves it.
IssuedAuthorizations ==
    {[last_refreshed |-> 0,
      last_response |-> [token_type |-> "Bearer", expires_in |-> 3600,
                         access_token |-> tok, refresh_token |-> S_xyz,
                         persist_login |-> FALSE]] :
        tok \in {S_abc, <<"a", "\n">>}}

InitClient ==
    /\ authorization \in {Some(Ok(a)) : a \in IssuedAuthorizations}
    /\ now = 0 /\ pc = "done" /\ query = None /\ request = None /\ response = None
    /\ sent = <<>> /\ calls = 0 /\ refresh = None /\ client = None
    /\ query_result = None
    /\ PriceIdle /\ DateIdle /\ ServiceIdle

\* Authorization::into_client: the Authorization moves into the Client.
IntoClient ==
    /\ pc = "done" /\ authorization.some /\ authorization.v.ok /\ ~client.some
    /\ client' = Some(TryFromAuthorization(authorization.v.v))
    /\ authorization' = None
    /\ pc' = "idle"
    /\ UNCHANGED <<now, query, request, response, sent, calls, refresh, query_result,
                   codec_price, codec_date, codec_svc>>

\* Client::services and Client::query, up to the await in Client::request.
ClientQuery ==
    /\ pc = "idle" /\ client.some /\ client.v.ok /\ calls < MaxCalls
    /\ \E q \in Queries :
           /\ query' = Some(q)
           /\ request' = Some(QueryRequest(client.v.v, q))
           /\ sent' = Append(sent, QueryRequest(client.v.v, q))
    /\ calls' = calls + 1
    /\ response' = None
    /\ query_result' = None
    /\ pc' = "query"
    /\ UNCHANGED <<now, authorization, refresh, client, codec_price, codec_date,
                   codec_svc>>

\* Client::request resumed, and the rest of Client::services: whatever the
\* transport delivered is decoded and returned.
ClientReceive ==
    /\ pc = "query"
    /\ \E outcome \in QueryOutcomes :
           /\ response' = Some(outcome)
           /\ query_result' = Some(UnwrapData(query.v, QueryResult(query.v, outcome)))
    /\ pc' = "idle"
    /\ UNCHANGED <<now, query, request, sent, calls, authorization, refresh, client,
                   codec_price, codec_date, codec_svc>>

NextClient == IntoClient \/ ClientQuery \/ ClientReceive
SpecClient == InitClient /\ [][NextClient]_vars

(***************************************************************************)
(* C3, C10: the typed query engine.                                        *)
(***************************************************************************)
\* The service records of the wire that decode.
WellFormedRecords == {r \in WireRecords : DecodeService(r).ok}

\* services() has returned for a response with this body.
ServicesReturned(body) ==
    /\ pc = "idle" /\ query = Some(GetServices) /\ query_result.some
    /\ response.v.ok /\ response.v.v.body = to_string(body)

OneBroadbandEntry ==
    /\ query_result.v.ok
    /\ Len(query_result.v.v.broadband) = 1
    /\ query_result.v.v.mobile = <<>>
    /\ query_result.v.v.phone = <<>>
    /\ query_result.v.v.voip = <<>>

\* C3 as stated: for the body {"broadband":{"data":[r]},"mobile":{"data":[]},
\* "phone":{"data":[]},"voip":{"data":[]}}, services() returns a Services with
\* one broadband entry and nothing else.
C3_BareServicesBody ==
    \A r \in WellFormedRecords :
        ServicesReturned(ServicesBody(<<r>>)) => OneBroadbandEntry

\* C3 amended: services() returns that Services when the body is the same
\* object inside the envelope of the query's response type, {"data": {...}};
\* the bare object is refused for its missing "data" field.
C3_EnvelopedServicesBody ==
    \A r \in WellFormedRecords :
        /\ ServicesReturned(Envelope(ServicesBody(<<r>>))) =>
               /\ OneBroadbandEntry
               /\ query_result.v.v.broadband[1] = DecodeService(r).v
        /\ ServicesReturned(ServicesBody(<<r>>)) =>
               query_result.v = Err("missing field")

\* services() returned for an enveloped body with one record.
C3_Witness ==
    /\ ServicesReturned(Envelope(ServicesBody(
           <<GoodRecord([k \in {"speed"} |-> JNum(100)])>>)))
    /\ query_result.v.ok

\* C10: every call sends one request and no more, to URL_PREFIX + path: a POST
\* with the serialized body and Content-Type application/json when the query
\* has a body, a GET with Content-Type text/plain when it has none, both with
\* Accept application/json; a failure is returned and nothing is sent again.
C10_OneRequestPerCall ==
    /\ Len(sent) = calls
    /\ query.some =>
           LET q == query.v
               r == request.v
           IN /\ sent[Len(sent)] = r
              /\ r.url = URL_PREFIX \o q.path
              /\ r.headers["accept"] = "application/json"
              /\ q.body.some =>
                     /\ r.method = "POST"
                     /\ r.headers["content-type"] = "application/json"
                     /\ r.body = Some(to_string(q.body.v))
              /\ ~q.body.some =>
                     /\ r.method = "GET"
                     /\ r.headers["content-type"] = "text/plain"
                     /\ r.body = None
    /\ (query_result.some /\ response.some /\ ~response.v.ok) =>
           query_result.v = Err("transport")
    /\ (query_result.some /\ response.some /\ response.v.ok /\ ~response.v.v.body.wf) =>
           query_result.v = Err("syntax")
    /\ (query_result.some /\ ~query_result.v.ok) => pc = "idle"

\* A second call was made after the first had failed, and two requests are out.
C10_Witness ==
    /\ calls = 2 /\ Len(sent) = 2
    /\ sent[1].method = "POST" /\ sent[2].method = "GET"
    /\ query_result.some /\ ~query_result.v.ok

====
